---- MODULE Spec2Model ----
(***************************************************************************)
(* NetworkAdapter (cdm/storage/network.py): the request builder, the       *)
(* network configuration, the default exponential back-off callback and    *)
(* the read of a request through the CDM HTTP client.                      *)
(***************************************************************************)
EXTENDS Integers, Sequences, FiniteSets, TLC

VARIABLES
    timeout,             \* self.timeout, one per adapter instance
    maximum_timeout,     \* self.maximum_timeout
    number_of_retries,   \* self.number_of_retries
    wait_time_callback,  \* self.wait_time_callback
    requests,            \* the CdmHttpRequest objects built so far
    built_from,          \* history: the adapter fields at each build call
    last_update,         \* history: the last update_network_config call
    exported,            \* the last value returned by fetch_network_config
    wait_call,           \* the arguments of a call of the wait callback
    wait_result,         \* what that call returned
    calls,               \* the calls of _read: where each is, what it saw
    running,             \* the task the event loop's thread is running
    updater,             \* a task inside update_network_config
    builder,             \* a task inside _set_up_cdm_request
    updated              \* history: the adapters update_network_config
                         \* was ever called on

vars == <<timeout, maximum_timeout, number_of_retries, wait_time_callback,
          requests, built_from, last_update, exported, wait_call, wait_result,
          calls, running, updater, builder, updated>>

\* The state of the event loop and of the two tasks run statement by statement.
loopVars == <<running, updater, builder>>

(***************************************************************************)
(* Bounds of the model.                                                    *)
(***************************************************************************)
MaxRequests == 2
MaxRetryNumber == 4

Adapters == {"a1", "a2"}

(***************************************************************************)
(* Class constants.                                                        *)
(***************************************************************************)
DEFAULT_TIMEOUT == 2000
DEFAULT_NUMBER_OF_RETRIES == 2
DEFAULT_MAXIMUM_TIMEOUT == 10000
DEFAULT_SHORTEST_WAIT_TIME == 500

(***************************************************************************)
(* Python numbers.  An int n is [t |-> "int", n |-> n, half |-> FALSE]; a  *)
(* float is n (half = FALSE) or n + 0.5 (half = TRUE, n >= 0).             *)
(***************************************************************************)
PyInt(n) == [t |-> "int", n |-> n, half |-> FALSE]
PyFloat(n, h) == [t |-> "float", n |-> n, half |-> h]

\* The number's value, doubled (so that halves stay integers).
Twice(x) == 2 * x.n + (IF x.half THEN 1 ELSE 0)

\* Python's ==, <= on numbers: by value, an int equals the float of it.
PyEq(x, y) == Twice(x) = Twice(y)
PyLe(x, y) == Twice(x) <= Twice(y)

(***************************************************************************)
(* JSON values of a configuration payload: null, an integer, a number with *)
(* a fractional part (n + 0.5), a string holding an integer literal, and a *)
(* string that is no number.                                               *)
(***************************************************************************)
JNull == [k |-> "null", n |-> 0]
JInt(n) == [k |-> "int", n |-> n]
JReal(n) == [k |-> "real", n |-> n]
JIntStr(n) == [k |-> "istr", n |-> n]
JBadStr == [k |-> "bad", n |-> 0]
\* A number written with a fraction of zero ("3.0"): json.loads gives a float.
JWhole(n) == [k |-> "whole", n |-> n]

\* float(v) and int(v): ok = FALSE is the ValueError of a string that does
\* not parse.  int() truncates a float towards zero.
float(v) ==
    CASE v.k = "int"  -> [ok |-> TRUE, val |-> PyFloat(v.n, FALSE)]
      [] v.k = "real" -> [ok |-> TRUE, val |-> PyFloat(v.n, TRUE)]
      [] v.k = "whole" -> [ok |-> TRUE, val |-> PyFloat(v.n, FALSE)]
      [] v.k = "istr" -> [ok |-> TRUE, val |-> PyFloat(v.n, FALSE)]
      [] OTHER        -> [ok |-> FALSE, val |-> PyFloat(0, FALSE)]

int(v) ==
    CASE v.k = "int"  -> [ok |-> TRUE, val |-> PyInt(v.n)]
      [] v.k = "real" -> [ok |-> TRUE,
                          val |-> PyInt(IF v.n >= 0 THEN v.n ELSE v.n + 1)]
      [] v.k = "whole" -> [ok |-> TRUE, val |-> PyInt(v.n)]
      [] v.k = "istr" -> [ok |-> TRUE, val |-> PyInt(v.n)]
      [] OTHER        -> [ok |-> FALSE, val |-> PyInt(0)]

(***************************************************************************)
(* A configuration payload (the str given to update_network_config):      *)
(* form "malformed" is text json.loads rejects, "array" is well-formed     *)
(* JSON that is no object, "object" is an object whose keys are DOMAIN obj.*)
(***************************************************************************)
Keys == {"timeout", "maximumTimeout", "numberOfRetries"}

Payload(form, obj) == [form |-> form, obj |-> obj]

\* dict.get(key): None (JNull) for an absent key.
Get(configs_json, key) ==
    IF key \in DOMAIN configs_json THEN configs_json[key] ELSE JNull

IsNotNone(v) == v.k # "null"

(***************************************************************************)
(* update_network_config, statement by statement, on st = [self |-> the    *)
(* adapter's three fields, raised |-> the exception raised so far].        *)
(***************************************************************************)
Fields(a) == [timeout |-> timeout[a],
              maximum_timeout |-> maximum_timeout[a],
              number_of_retries |-> number_of_retries[a]]

\* configs_json = json.loads(config); a list has no attribute get
JsonLoads(st, config) ==
    CASE config.form = "malformed" -> [st EXCEPT !.raised = "JSONDecodeError"]
      [] config.form = "array"     -> [st EXCEPT !.raised = "AttributeError"]
      [] OTHER                     -> st

SetTimeout(st, config) ==
    LET v == Get(config.obj, "timeout") IN
    IF st.raised # "none" \/ ~IsNotNone(v) THEN st
    ELSE IF float(v).ok THEN [st EXCEPT !.self.timeout = float(v).val]
    ELSE [st EXCEPT !.raised = "ValueError"]

SetMaximumTimeout(st, config) ==
    LET v == Get(config.obj, "maximumTimeout") IN
    IF st.raised # "none" \/ ~IsNotNone(v) THEN st
    ELSE IF float(v).ok THEN [st EXCEPT !.self.maximum_timeout = float(v).val]
    ELSE [st EXCEPT !.raised = "ValueError"]

\* SetNumberOfRetries with float() where the method calls int().
SetNumberOfRetries_AsFloat(st, config) ==
    LET v == Get(config.obj, "numberOfRetries") IN
    IF st.raised # "none" \/ ~IsNotNone(v) THEN st
    ELSE IF float(v).ok THEN [st EXCEPT !.self.number_of_retries = float(v).val]
    ELSE [st EXCEPT !.raised = "ValueError"]

SetNumberOfRetries(st, config) ==
    LET v == Get(config.obj, "numberOfRetries") IN
    IF st.raised # "none" \/ ~IsNotNone(v) THEN st
    ELSE IF int(v).ok THEN [st EXCEPT !.self.number_of_retries = int(v).val]
    ELSE [st EXCEPT !.raised = "ValueError"]

\* The whole method: the fields it leaves and the exception it raised.
UpdateNetworkConfigOf(self, config) ==
    SetNumberOfRetries(
        SetMaximumTimeout(
            SetTimeout(
                JsonLoads([self |-> self, raised |-> "none"], config),
                config),
            config),
        config)

\* FetchNetworkConfigOf with the two timeouts under each other's key.
FetchNetworkConfigOf_Swapped(self) ==
    [timeout |-> self.maximum_timeout,
     maximumTimeout |-> self.timeout,
     numberOfRetries |-> self.number_of_retries]

\* fetch_network_config: the dict it returns.
FetchNetworkConfigOf(self) ==
    [timeout |-> self.timeout,
     maximumTimeout |-> self.maximum_timeout,
     numberOfRetries |-> self.number_of_retries]

\* json.dumps of a number: an int as its digits, a float with its fraction
\* ("3.0", "2.5").
JsonDumpsNumber(x) ==
    IF x.t = "int" THEN JInt(x.n)
    ELSE IF x.half THEN JReal(x.n)
    ELSE JWhole(x.n)

\* json.dumps of the dict fetch_network_config returns, as the payload
\* update_network_config is given.
JsonDumps(dict) ==
    Payload("object", [k \in DOMAIN dict |-> JsonDumpsNumber(dict[k])])

\* SetUpCdmRequestOf reading the class defaults instead of the instance.
SetUpCdmRequestOf_ClassDefaults(a, self) ==
    [adapter |-> a,
     timeout |-> PyInt(DEFAULT_TIMEOUT),
     maximum_timeout |-> PyInt(DEFAULT_MAXIMUM_TIMEOUT),
     number_of_retries |-> PyInt(DEFAULT_NUMBER_OF_RETRIES)]

\* _set_up_cdm_request: the request's fields copied from the adapter.
SetUpCdmRequestOf(a, self) ==
    [adapter |-> a,
     timeout |-> self.timeout,
     maximum_timeout |-> self.maximum_timeout,
     number_of_retries |-> self.number_of_retries]

(***************************************************************************)
(* _default_get_wait_time.  response is <<>> (None) or <<r>> with          *)
(* r.is_successful; random.randint(a, b) draws from a..b, both included.   *)
(* The value is the set of what the call can return: NoWait is None.       *)
(***************************************************************************)
NoWait == [none |-> TRUE, ms |-> 0]
WaitMs(ms) == [none |-> FALSE, ms |-> ms]

RandInt(a, b) == a .. b

Pow2(n) == 2 ^ n

\* DefaultGetWaitTime without the test of has_failed.
DefaultGetWaitTime_IgnoresHasFailed(response, has_failed, retry_number) ==
    IF response # <<>> /\ response[1].is_successful
    THEN {NoWait}
    ELSE {WaitMs(r * DEFAULT_SHORTEST_WAIT_TIME) :
             r \in RandInt(0, Pow2(retry_number))}

DefaultGetWaitTime(response, has_failed, retry_number) ==
    IF response # <<>> /\ response[1].is_successful /\ ~has_failed
    THEN {NoWait}
    ELSE {WaitMs(r * DEFAULT_SHORTEST_WAIT_TIME) :
             r \in RandInt(0, Pow2(retry_number))}

(***************************************************************************)
(* CdmHttpResponse: what one attempt of the HTTP client produced.  <<>> is *)
(* no response (the attempt raised), <<r>> a response r.                   *)
(***************************************************************************)
Response(ok, code, hdrs, content) ==
    [is_successful |-> ok, status_code |-> code, response_headers |-> hdrs,
     content |-> content]

(***************************************************************************)
(* _read after the await: what the call returns or raises for the result   *)
(* of send_async.  kind "return" carries content; "HTTPError" carries url, *)
(* code and hdrs; "Exception" is the undefined-result error.               *)
(***************************************************************************)
Returns(content) ==
    [kind |-> "return", content |-> content, url |-> "", code |-> 0,
     hdrs |-> ""]

Raises(kind, url, code, hdrs) ==
    [kind |-> kind, content |-> "", url |-> url, code |-> code, hdrs |-> hdrs]

\* ReadOf raising for a successful result and returning a failed one.
ReadOf_Inverted(result, request) ==
    IF result = <<>>
    THEN Raises("Exception", "", 0, "")
    ELSE IF result[1].is_successful
    THEN Raises("HTTPError", request.requested_url, result[1].status_code,
                result[1].response_headers)
    ELSE Returns(result[1].content)

\* ReadOf without the test of is_successful.
ReadOf_Unchecked(result, request) ==
    IF result = <<>>
    THEN Raises("Exception", "", 0, "")
    ELSE Returns(result[1].content)

\* ReadOf returning an empty body where no result came back.
ReadOf_NoneReturnsEmpty(result, request) ==
    IF result = <<>>
    THEN Returns("")
    ELSE IF result[1].is_successful = FALSE
    THEN Raises("HTTPError", request.requested_url, result[1].status_code,
                result[1].response_headers)
    ELSE Returns(result[1].content)

\* ReadOf raising the undefined-result error for every failure.
ReadOf_Undefined(result, request) ==
    IF result = <<>> \/ ~result[1].is_successful
    THEN Raises("Exception", "", 0, "")
    ELSE Returns(result[1].content)

ReadOf(result, request) ==
    IF result = <<>>
    THEN Raises("Exception", "", 0, "")
    ELSE IF result[1].is_successful = FALSE
    THEN Raises("HTTPError", request.requested_url, result[1].status_code,
                result[1].response_headers)
    ELSE Returns(result[1].content)

\* ReadRaised turning the exception of the await into an HTTPError.
ReadRaised_AsHTTPError(exception, request) ==
    Raises("HTTPError", request.requested_url, 0, "")

\* _read when the await of line 48 raises: no handler, the exception leaves
\* _read as it is.
ReadRaised(exception, request) == Raises(exception, "", 0, "")

(***************************************************************************)
(* send_async of the HTTP client (cdm_http_client, not part of this file): *)
(* the retry loop, one attempt at a time.  A call is                       *)
(*   pc            "idle", "send" (an attempt is in flight), "sleep" (the  *)
(*                 wait between attempts) or "done"                        *)
(*   request       the index of its request in requests                    *)
(*   callback      the wait callback handed to send_async                  *)
(*   retry_number  the number of the current attempt, from 1               *)
(*   outcomes      history: the outcome of every attempt so far            *)
(*   wait          the wait time the callback gave for the current sleep   *)
(*   slept         history: the waits completed                            *)
(*   returned      what _read returned or raised                           *)
(*   cancelled     history: where the call was when its caller cancelled   *)
(*                 it, and how many attempts it had made                   *)
(***************************************************************************)
Calls == {"c1", "c2"}

IdleCall ==
    [pc |-> "idle", request |-> 0, callback |-> "", retry_number |-> 0,
     outcomes |-> <<>>, wait |-> <<>>, slept |-> <<>>, returned |-> <<>>,
     cancelled |-> <<>>]

\* The attempt raised, or hit a transport fault: no response came of it.
HasFailed(outcome) == outcome = <<>>

\* The callbacks an adapter can hold: its own default, and one function of
\* the same signature that its caller assigned.
Callbacks == {"_default_get_wait_time", "alternate"}

\* The caller's function: the same short wait whatever it is given.
AlternateGetWaitTime(response, has_failed, retry_number) == {WaitMs(1)}

\* The wait callback applied: the set of values it can return.
WaitTime(callback, response, has_failed, retry_number) ==
    IF callback = "_default_get_wait_time"
    THEN DefaultGetWaitTime(response, has_failed, retry_number)
    ELSE AlternateGetWaitTime(response, has_failed, retry_number)

\* Exhausted with the test for equality alone.
Exhausted_Equal(retry_number, budget) == retry_number = budget

\* The last permitted attempt has been used; with a budget of 0 the first
\* attempt is the last.
Exhausted(retry_number, budget) == retry_number >= budget

\* send_async returns result to _read, which returns or raises.
Finish(call, result, request) ==
    [call EXCEPT !.pc = "done",
                 !.returned = Append(@, ReadOf(result, request))]

\* The call after the transport answered the current attempt with outcome;
\* w is the value the wait callback returns if it is consulted.
AfterAttempt(call, request, outcome, w) ==
    LET seen == [call EXCEPT !.outcomes = Append(@, outcome)] IN
    IF outcome # <<>> /\ outcome[1].is_successful
    THEN Finish(seen, outcome, request)
    ELSE IF Exhausted(call.retry_number, request.number_of_retries.n)
    THEN Finish(seen, outcome, request)
    ELSE [seen EXCEPT !.pc = "sleep", !.wait = <<w>>]

(***************************************************************************)
(* The event loop.  The methods run on one thread as callbacks and         *)
(* coroutines of an event loop: a task that has the thread keeps it until  *)
(* it returns, raises or reaches an await.  Positions are source lines:    *)
(* "l74" is a task about to execute line 74.                               *)
(***************************************************************************)
\* Every line of the two methods taken as a point where the thread is given up.
AwaitPoints_EveryLine ==
    {"l41", "l42", "l43", "l45", "l48", "l74", "l77", "l80"}

\* The lines that await: the one of _read.
AwaitPoints == {"l48"}

\* The task running after task t moved to position pc.
RunningAfter(t, pc) == IF pc = "end" \/ pc \in AwaitPoints THEN "" ELSE t

IdleUpdater ==
    [pc |-> "idle", adapter |-> "", config |-> Payload("object", <<>>),
     raised |-> "none", before |-> <<>>, after |-> <<>>]

IdleBuilder ==
    [pc |-> "idle", adapter |-> "", request |-> <<>>, before |-> <<>>]

\* The position after a line of update_network_config left st.
UpdaterNext(st, pc) == IF st.raised # "none" THEN "end" ELSE pc

(***************************************************************************)
(* The state after __init__ of every adapter; nothing built or called yet. *)
(***************************************************************************)
Init ==
    /\ timeout = [a \in Adapters |-> PyInt(DEFAULT_TIMEOUT)]
    /\ maximum_timeout = [a \in Adapters |-> PyInt(DEFAULT_MAXIMUM_TIMEOUT)]
    /\ number_of_retries = [a \in Adapters |-> PyInt(DEFAULT_NUMBER_OF_RETRIES)]
    /\ wait_time_callback = [a \in Adapters |-> "_default_get_wait_time"]
    /\ requests = <<>>
    /\ built_from = <<>>
    /\ last_update = <<>>
    /\ exported = <<>>
    /\ wait_call = <<>>
    /\ wait_result = <<>>
    /\ calls = [c \in Calls |-> IdleCall]
    /\ running = ""
    /\ updater = IdleUpdater
    /\ builder = IdleBuilder
    /\ updated = {}

(***************************************************************************)
(* Operations of the adapter.                                              *)
(***************************************************************************)
\* UpdateNetworkConfig storing the values on the class, for every instance.
UpdateNetworkConfig_ClassLevel(a, config) ==
    LET st == UpdateNetworkConfigOf(Fields(a), config) IN
    /\ timeout' = [b \in Adapters |-> st.self.timeout]
    /\ maximum_timeout' = [b \in Adapters |-> st.self.maximum_timeout]
    /\ number_of_retries' = [b \in Adapters |-> st.self.number_of_retries]
    /\ last_update' = <<[adapter |-> a, config |-> config,
                         before |-> Fields(a), raised |-> st.raised]>>
    /\ exported' = <<>>
    /\ updated' = updated \cup {a}
    /\ UNCHANGED <<loopVars, calls, wait_time_callback, requests, built_from,
                   wait_call, wait_result>>

\* adapter a: update_network_config(config), returning or raising.
UpdateNetworkConfig(a, config) ==
    LET st == UpdateNetworkConfigOf(Fields(a), config) IN
    /\ timeout' = [timeout EXCEPT ![a] = st.self.timeout]
    /\ maximum_timeout' = [maximum_timeout EXCEPT ![a] = st.self.maximum_timeout]
    /\ number_of_retries' =
           [number_of_retries EXCEPT ![a] = st.self.number_of_retries]
    /\ last_update' = <<[adapter |-> a, config |-> config,
                         before |-> Fields(a), raised |-> st.raised]>>
    /\ exported' = <<>>
    /\ updated' = updated \cup {a}
    /\ UNCHANGED <<loopVars, calls, wait_time_callback, requests, built_from,
                   wait_call, wait_result>>

\* adapter a: update_network_config(json.dumps(d)) on the dict d that
\* fetch_network_config() returned last.
RoundTrip(a) ==
    /\ exported # <<>>
    /\ exported[1].adapter = a
    /\ UpdateNetworkConfig(a, JsonDumps(exported[1].dict))

\* adapter a: fetch_network_config().
FetchNetworkConfig(a) ==
    /\ exported' = <<[adapter |-> a, dict |-> FetchNetworkConfigOf(Fields(a))]>>
    /\ UNCHANGED <<updated, loopVars, calls, timeout, maximum_timeout,
                   number_of_retries, wait_time_callback, requests,
                   built_from, last_update, wait_call, wait_result>>

\* adapter a: _set_up_cdm_request(path, headers, method).
SetUpCdmRequest(a, path, headers, method) ==
    /\ Len(requests) < MaxRequests
    /\ requests' = Append(requests,
           [requested_url |-> path, headers |-> headers, method |-> method]
               @@ SetUpCdmRequestOf(a, Fields(a)))
    /\ built_from' = Append(built_from,
           [adapter |-> a, timeout |-> timeout[a],
            maximum_timeout |-> maximum_timeout[a],
            number_of_retries |-> number_of_retries[a]])
    /\ UNCHANGED <<updated, loopVars, calls, timeout, maximum_timeout,
                   number_of_retries, wait_time_callback, last_update,
                   exported, wait_call, wait_result>>

\* One call of the default wait callback on the arguments drawn at the start.
CallDefaultGetWaitTime ==
    /\ wait_call # <<>>
    /\ wait_result = <<>>
    /\ \E w \in DefaultGetWaitTime(wait_call[1].response,
                                   wait_call[1].has_failed,
                                   wait_call[1].retry_number) :
           wait_result' = <<w>>
    /\ UNCHANGED <<updated, loopVars, calls, timeout, maximum_timeout,
                   number_of_retries, wait_time_callback, requests,
                   built_from, last_update, exported, wait_call>>

\* Read that starts only while no other call is in flight.
Read_Exclusive(c, i) ==
    /\ \A d \in Calls \ {c} : calls[d].pc \in {"idle", "done"}
    /\ calls[c].pc = "idle"
    /\ i \in 1 .. Len(requests)
    /\ calls' = [calls EXCEPT ![c] =
           [@ EXCEPT !.pc = "send", !.request = i, !.retry_number = 1,
                     !.callback = wait_time_callback[requests[i].adapter]]]
    /\ UNCHANGED <<updated, loopVars, timeout, maximum_timeout,
                   number_of_retries, wait_time_callback, requests,
                   built_from, last_update, exported, wait_call, wait_result>>

\* The caller assigns adapter a's wait_time_callback.
SetWaitTimeCallback(a, callback) ==
    /\ wait_time_callback' = [wait_time_callback EXCEPT ![a] = callback]
    /\ UNCHANGED <<updated, loopVars, calls, timeout, maximum_timeout,
                   number_of_retries, requests, built_from, last_update,
                   exported, wait_call, wait_result>>

\* Read handing the transport the adapter's own default callback.
Read_DefaultCallback(c, i) ==
    /\ calls[c].pc = "idle"
    /\ i \in 1 .. Len(requests)
    /\ calls' = [calls EXCEPT ![c] =
           [@ EXCEPT !.pc = "send", !.request = i, !.retry_number = 1,
                     !.callback = "_default_get_wait_time"]]
    /\ UNCHANGED <<updated, loopVars, timeout, maximum_timeout,
                   number_of_retries, wait_time_callback, requests,
                   built_from, last_update, exported, wait_call, wait_result>>

\* call c: _read(requests[i]) starts and awaits send_async, which sends the
\* first attempt.
Read(c, i) ==
    /\ calls[c].pc = "idle"
    /\ i \in 1 .. Len(requests)
    /\ calls' = [calls EXCEPT ![c] =
           [@ EXCEPT !.pc = "send", !.request = i, !.retry_number = 1,
                     !.callback = wait_time_callback[requests[i].adapter]]]
    /\ UNCHANGED <<updated, loopVars, timeout, maximum_timeout,
                   number_of_retries, wait_time_callback, requests,
                   built_from, last_update, exported, wait_call, wait_result>>

\* call c: the transport answers the attempt in flight with outcome.
Attempt(c, outcome) ==
    /\ calls[c].pc = "send"
    /\ \E w \in WaitTime(calls[c].callback, outcome, HasFailed(outcome),
                         calls[c].retry_number) :
           calls' = [calls EXCEPT ![c] =
               AfterAttempt(@, requests[calls[c].request], outcome, w)]
    /\ UNCHANGED <<updated, loopVars, timeout, maximum_timeout,
                   number_of_retries, wait_time_callback, requests,
                   built_from, last_update, exported, wait_call, wait_result>>

\* call c: the wait between two attempts ends and the next attempt is sent.
Wake(c) ==
    /\ calls[c].pc = "sleep"
    /\ calls' = [calls EXCEPT ![c] =
           [@ EXCEPT !.pc = "send", !.retry_number = @ + 1, !.wait = <<>>,
                     !.slept = Append(@, calls[c].wait[1])]]
    /\ UNCHANGED <<updated, loopVars, timeout, maximum_timeout,
                   number_of_retries, wait_time_callback, requests,
                   built_from, last_update, exported, wait_call, wait_result>>

\* call c: its caller cancels it while it is suspended; CancelledError is
\* raised at the await the call is suspended in and ends send_async.
Cancel(c) ==
    /\ calls[c].pc \in {"send", "sleep"}
    /\ calls' = [calls EXCEPT ![c] =
           [@ EXCEPT !.pc = "done", !.wait = <<>>,
                     !.cancelled = <<[pc |-> calls[c].pc,
                                      attempts |-> Len(calls[c].outcomes)]>>,
                     !.returned = Append(@,
                         ReadRaised("CancelledError",
                                    requests[calls[c].request]))]]
    /\ UNCHANGED <<updated, loopVars, timeout, maximum_timeout,
                   number_of_retries, wait_time_callback, requests,
                   built_from, last_update, exported, wait_call, wait_result>>

\* A task calls update_network_config(config) on adapter a and has the thread.
CallUpdate(a, config) ==
    /\ running = ""
    /\ updater.pc = "idle"
    /\ updater' = [IdleUpdater EXCEPT !.pc = "l72", !.adapter = a,
                                      !.config = config,
                                      !.before = <<Fields(a)>>]
    /\ running' = "updater"
    /\ updated' = updated \cup {a}
    /\ UNCHANGED <<timeout, maximum_timeout, number_of_retries,
                   wait_time_callback, requests, built_from, last_update,
                   exported, wait_call, wait_result, calls, builder>>

\* The updater executes the statement it is at.
StepUpdate ==
    /\ running \in {"", "updater"}
    /\ updater.pc \in {"l72", "l74", "l77", "l80"}
    /\ LET a == updater.adapter
           st0 == [self |-> Fields(a), raised |-> "none"]
           st == CASE updater.pc = "l72" -> JsonLoads(st0, updater.config)
                   [] updater.pc = "l74" -> SetTimeout(st0, updater.config)
                   [] updater.pc = "l77" ->
                          SetMaximumTimeout(st0, updater.config)
                   [] OTHER -> SetNumberOfRetries(st0, updater.config)
           pc == CASE updater.pc = "l72" -> UpdaterNext(st, "l74")
                   [] updater.pc = "l74" -> UpdaterNext(st, "l77")
                   [] updater.pc = "l77" -> UpdaterNext(st, "l80")
                   [] OTHER -> "end"
       IN  /\ timeout' = [timeout EXCEPT ![a] = st.self.timeout]
           /\ maximum_timeout' =
                  [maximum_timeout EXCEPT ![a] = st.self.maximum_timeout]
           /\ number_of_retries' =
                  [number_of_retries EXCEPT ![a] = st.self.number_of_retries]
           /\ updater' = [updater EXCEPT
                  !.pc = pc, !.raised = st.raised,
                  !.after = IF pc = "end" THEN <<st.self>> ELSE <<>>]
           /\ running' = RunningAfter("updater", pc)
    /\ UNCHANGED <<updated, wait_time_callback, requests, built_from,
                   last_update, exported, wait_call, wait_result, calls,
                   builder>>

\* A task calls _set_up_cdm_request on adapter a and has the thread; lines
\* 37 to 40 make the request and set its headers and method.
CallBuild(a, path, headers, method) ==
    /\ running = ""
    /\ builder.pc = "idle"
    /\ builder' = [pc |-> "l41", adapter |-> a, before |-> <<Fields(a)>>,
                   request |-> [requested_url |-> path, headers |-> headers,
                                method |-> method, adapter |-> a]]
    /\ running' = "builder"
    /\ UNCHANGED <<updated, timeout, maximum_timeout, number_of_retries,
                   wait_time_callback, requests, built_from, last_update,
                   exported, wait_call, wait_result, calls, updater>>

\* The builder executes the statement it is at; line 45 returns the request.
StepBuild ==
    /\ running \in {"", "builder"}
    /\ builder.pc \in {"l41", "l42", "l43", "l45"}
    /\ LET a == builder.adapter
           pc == CASE builder.pc = "l41" -> "l42"
                   [] builder.pc = "l42" -> "l43"
                   [] builder.pc = "l43" -> "l45"
                   [] OTHER -> "end"
           request ==
               CASE builder.pc = "l41" ->
                        [timeout |-> timeout[a]] @@ builder.request
                 [] builder.pc = "l42" ->
                        [maximum_timeout |-> maximum_timeout[a]]
                            @@ builder.request
                 [] builder.pc = "l43" ->
                        [number_of_retries |-> number_of_retries[a]]
                            @@ builder.request
                 [] OTHER -> builder.request
       IN  /\ builder' = [builder EXCEPT !.pc = pc, !.request = request]
           /\ running' = RunningAfter("builder", pc)
           /\ requests' = IF pc = "end" THEN Append(requests, request)
                          ELSE requests
           /\ built_from' =
                  IF pc = "end"
                  THEN Append(built_from, [adapter |-> a] @@ builder.before[1])
                  ELSE built_from
    /\ UNCHANGED <<updated, timeout, maximum_timeout, number_of_retries,
                   wait_time_callback, last_update, exported, wait_call,
                   wait_result, calls, updater>>

(***************************************************************************)
(* Inputs.                                                                 *)
(***************************************************************************)
\* Every object whose keys are a subset of Keys, key k's value in vals[k].
Objects(vals) ==
    UNION {{o \in [D -> UNION {vals[k] : k \in Keys}] :
               \A k \in D : o[k] \in vals[k]} : D \in SUBSET Keys}

PayloadsOver(vals) ==
    {Payload("malformed", <<>>), Payload("array", <<>>)}
        \cup {Payload("object", o) : o \in Objects(vals)}

\* Payloads of the configuration specification: every kind of JSON value.
ConfigValues ==
    [timeout         |-> {JNull, JInt(3), JReal(2), JBadStr},
     maximumTimeout  |-> {JNull, JInt(1), JIntStr(3), JBadStr},
     numberOfRetries |-> {JNull, JInt(-1), JInt(0), JReal(2), JIntStr(3),
                          JBadStr}]

\* Payloads of the build specification: numbers on either side of each other.
BuildValues ==
    [timeout         |-> {JInt(3)},
     maximumTimeout  |-> {JInt(1), JInt(5)},
     numberOfRetries |-> {JInt(0), JBadStr}]

\* The responses a callback can be given: None, or a CdmHttpResponse.
Responses == {<<>>, <<[is_successful |-> TRUE]>>, <<[is_successful |-> FALSE]>>}

WaitCalls ==
    [response : Responses, has_failed : BOOLEAN,
     retry_number : 1 .. MaxRetryNumber]

\* Payloads of the read specification: the retry budgets 0, 1 and 3.
ReadPayloads ==
    {Payload("object", [numberOfRetries |-> v]) :
        v \in {JInt(0), JInt(1), JInt(3)}}

\* What the transport can answer an attempt with.
Outcomes ==
    {<<>>}
        \cup {<<Response(TRUE, 200, "h200", b)>> : b \in {"body1", "body2"}}
        \cup {<<Response(FALSE, 404, "h404", "err404")>>,
              <<Response(FALSE, 500, "h500", "err500")>>}

(***************************************************************************)
(* Spec: one adapter is configured and builds requests.                    *)
(***************************************************************************)
Next ==
    \/ \E config \in PayloadsOver(BuildValues) :
           UpdateNetworkConfig("a1", config)
    \/ SetUpCdmRequest("a1", "/doc.json", "h", "GET")

Spec == Init /\ [][Next]_vars

(***************************************************************************)
(* SpecConfig: one adapter is configured and its configuration fetched.    *)
(***************************************************************************)
NextConfig ==
    \/ \E config \in PayloadsOver(ConfigValues) :
           UpdateNetworkConfig("a1", config)
    \/ FetchNetworkConfig("a1")

SpecConfig == Init /\ [][NextConfig]_vars

(***************************************************************************)
(* SpecWait: the default wait callback on every argument list.             *)
(***************************************************************************)
InitWait ==
    /\ timeout = [a \in Adapters |-> PyInt(DEFAULT_TIMEOUT)]
    /\ maximum_timeout = [a \in Adapters |-> PyInt(DEFAULT_MAXIMUM_TIMEOUT)]
    /\ number_of_retries = [a \in Adapters |-> PyInt(DEFAULT_NUMBER_OF_RETRIES)]
    /\ wait_time_callback = [a \in Adapters |-> "_default_get_wait_time"]
    /\ requests = <<>>
    /\ built_from = <<>>
    /\ last_update = <<>>
    /\ exported = <<>>
    /\ wait_call \in {<<c>> : c \in WaitCalls}
    /\ wait_result = <<>>
    /\ calls = [c \in Calls |-> IdleCall]
    /\ running = ""
    /\ updater = IdleUpdater
    /\ builder = IdleBuilder
    /\ updated = {}

NextWait == CallDefaultGetWaitTime

SpecWait == InitWait /\ [][NextWait]_vars

(***************************************************************************)
(* SpecRead: one adapter is configured, builds requests and one call of    *)
(* _read runs against a transport that answers as it likes.                *)
(***************************************************************************)
NextRead ==
    \/ \E config \in ReadPayloads : UpdateNetworkConfig("a1", config)
    \/ SetUpCdmRequest("a1", "/doc.json", "h", "GET")
    \/ \E i \in 1 .. MaxRequests : Read("c1", i)
    \/ \E outcome \in Outcomes : Attempt("c1", outcome)
    \/ Wake("c1")

SpecRead == Init /\ [][NextRead]_vars

(***************************************************************************)
(* SpecLoop: one task updates the configuration of an adapter while        *)
(* another builds a request on it, both scheduled by the event loop.       *)
(***************************************************************************)
NextLoop ==
    \/ \E config \in PayloadsOver(BuildValues) : CallUpdate("a1", config)
    \/ StepUpdate
    \/ CallBuild("a1", "/doc.json", "h", "GET")
    \/ StepBuild

SpecLoop == Init /\ [][NextLoop]_vars

(***************************************************************************)
(* SpecCancel: SpecRead with a caller that may cancel the call.            *)
(***************************************************************************)
NextCancel ==
    \/ \E config \in ReadPayloads : UpdateNetworkConfig("a1", config)
    \/ SetUpCdmRequest("a1", "/doc.json", "h", "GET")
    \/ \E i \in 1 .. MaxRequests : Read("c1", i)
    \/ \E outcome \in Outcomes : Attempt("c1", outcome)
    \/ Wake("c1")
    \/ Cancel("c1")

SpecCancel == Init /\ [][NextCancel]_vars

(***************************************************************************)
(* SpecArgs: one adapter is configured and builds requests for every path  *)
(* and method, the empty path and a method that is no HTTP verb included.  *)
(***************************************************************************)
Paths == {"", "/doc.json"}

Methods == {"GET", "BREW"}

NextArgs ==
    \/ \E config \in ReadPayloads : UpdateNetworkConfig("a1", config)
    \/ \E path \in Paths, method \in Methods :
           SetUpCdmRequest("a1", path, "h", method)

SpecArgs == Init /\ [][NextArgs]_vars

(***************************************************************************)
(* SpecCalls: two calls of _read run at once on one adapter, which is      *)
(* configured and builds requests meanwhile.                               *)
(***************************************************************************)
CallsPayloads == {Payload("object", [numberOfRetries |-> JInt(1)])}

CallsOutcomes ==
    {<<>>, <<Response(TRUE, 200, "h200", "body1")>>,
     <<Response(FALSE, 500, "h500", "err500")>>}

NextCalls ==
    \/ \E config \in CallsPayloads : UpdateNetworkConfig("a1", config)
    \/ SetUpCdmRequest("a1", "/doc.json", "h", "GET")
    \/ \E c \in Calls, i \in 1 .. MaxRequests : Read(c, i)
    \/ \E c \in Calls, outcome \in CallsOutcomes : Attempt(c, outcome)
    \/ \E c \in Calls : Wake(c)

SpecCalls == Init /\ [][NextCalls]_vars

(***************************************************************************)
(* SpecCallback: two calls on an adapter whose caller assigns its wait     *)
(* callback at any moment.                                                 *)
(***************************************************************************)
CallbackOutcomes ==
    {<<Response(TRUE, 200, "h200", "body1")>>,
     <<Response(FALSE, 500, "h500", "err500")>>}

NextCallback ==
    \/ \E callback \in Callbacks : SetWaitTimeCallback("a1", callback)
    \/ SetUpCdmRequest("a1", "/doc.json", "h", "GET")
    \/ \E c \in Calls, i \in 1 .. MaxRequests : Read(c, i)
    \/ \E c \in Calls, outcome \in CallbackOutcomes : Attempt(c, outcome)
    \/ \E c \in Calls : Wake(c)

SpecCallback == Init /\ [][NextCallback]_vars

(***************************************************************************)
(* SpecAdapters: two adapters, each configured, fetched from and building  *)
(* requests, and one call of the default wait callback.                    *)
(***************************************************************************)
AdaptersPayloads ==
    {Payload("object", [timeout |-> JInt(3)]),
     Payload("object", [timeout |-> JInt(3), maximumTimeout |-> JInt(5),
                        numberOfRetries |-> JInt(0)])}

AdaptersWaitCalls ==
    [response : {<<>>}, has_failed : {TRUE}, retry_number : 1 .. 2]

\* InitAdapters with timeout and maximum_timeout given each other's default.
InitAdapters_SwappedDefaults ==
    /\ timeout = [a \in Adapters |-> PyInt(DEFAULT_MAXIMUM_TIMEOUT)]
    /\ maximum_timeout = [a \in Adapters |-> PyInt(DEFAULT_TIMEOUT)]
    /\ number_of_retries = [a \in Adapters |-> PyInt(DEFAULT_NUMBER_OF_RETRIES)]
    /\ wait_time_callback = [a \in Adapters |-> "_default_get_wait_time"]
    /\ requests = <<>>
    /\ built_from = <<>>
    /\ last_update = <<>>
    /\ exported = <<>>
    /\ wait_call \in {<<c>> : c \in AdaptersWaitCalls}
    /\ wait_result = <<>>
    /\ calls = [c \in Calls |-> IdleCall]
    /\ running = ""
    /\ updater = IdleUpdater
    /\ builder = IdleBuilder
    /\ updated = {}

InitAdapters ==
    /\ timeout = [a \in Adapters |-> PyInt(DEFAULT_TIMEOUT)]
    /\ maximum_timeout = [a \in Adapters |-> PyInt(DEFAULT_MAXIMUM_TIMEOUT)]
    /\ number_of_retries = [a \in Adapters |-> PyInt(DEFAULT_NUMBER_OF_RETRIES)]
    /\ wait_time_callback = [a \in Adapters |-> "_default_get_wait_time"]
    /\ requests = <<>>
    /\ built_from = <<>>
    /\ last_update = <<>>
    /\ exported = <<>>
    /\ wait_call \in {<<c>> : c \in AdaptersWaitCalls}
    /\ wait_result = <<>>
    /\ calls = [c \in Calls |-> IdleCall]
    /\ running = ""
    /\ updater = IdleUpdater
    /\ builder = IdleBuilder
    /\ updated = {}

NextAdapters ==
    \/ \E a \in Adapters, config \in AdaptersPayloads :
           UpdateNetworkConfig(a, config)
    \/ \E a \in Adapters : FetchNetworkConfig(a)
    \/ \E a \in Adapters : SetUpCdmRequest(a, "/doc.json", "h", "GET")
    \/ CallDefaultGetWaitTime

SpecAdapters == InitAdapters /\ [][NextAdapters]_vars

(***************************************************************************)
(* SpecBudget: numberOfRetries of either sign configured, fetched and      *)
(* built into requests.                                                    *)
(***************************************************************************)
BudgetPayloads ==
    {Payload("object", [numberOfRetries |-> v]) :
         v \in {JInt(-1), JInt(0), JInt(3), JReal(-2), JIntStr(-3)}}

NextBudget ==
    \/ \E config \in BudgetPayloads : UpdateNetworkConfig("a1", config)
    \/ FetchNetworkConfig("a1")
    \/ SetUpCdmRequest("a1", "/doc.json", "h", "GET")

SpecBudget == Init /\ [][NextBudget]_vars

(***************************************************************************)
(* SpecRoundTrip: updates, fetches and updates with what was fetched.      *)
(***************************************************************************)
RoundTripValues ==
    [timeout         |-> {JInt(3), JReal(2), JBadStr},
     maximumTimeout  |-> {JIntStr(3)},
     numberOfRetries |-> {JInt(-1), JReal(2), JBadStr}]

NextRoundTrip ==
    \/ \E config \in PayloadsOver(RoundTripValues) :
           UpdateNetworkConfig("a1", config)
    \/ FetchNetworkConfig("a1")
    \/ RoundTrip("a1")

SpecRoundTrip == Init /\ [][NextRoundTrip]_vars

(***************************************************************************)
(* Properties of the default wait callback (SpecWait).                     *)
(***************************************************************************)
WaitReturned == wait_call # <<>> /\ wait_result # <<>>

\* The call was made for a failing attempt: no response, an unsuccessful
\* response, or has_failed.
FailingInput(c) ==
    \/ c.response = <<>>
    \/ ~c.response[1].is_successful
    \/ c.has_failed

\* C1: for every retry number n >= 1 and every failing input, the value the
\* default wait callback returns lies in [0, (2^n - 1) * 500].
C1_WaitWithinBound ==
    (WaitReturned /\ FailingInput(wait_call[1])) =>
        /\ ~wait_result[1].none
        /\ wait_result[1].ms >= 0
        /\ wait_result[1].ms <=
               (Pow2(wait_call[1].retry_number) - 1) * DEFAULT_SHORTEST_WAIT_TIME

\* C2: the default wait callback returns None if and only if a response is
\* present, it is successful and has_failed is false; in every other case it
\* returns a number.
C2_NoWaitIffSuccess ==
    WaitReturned =>
        (wait_result[1].none <=>
            (/\ wait_call[1].response # <<>>
             /\ wait_call[1].response[1].is_successful
             /\ ~wait_call[1].has_failed))

C2_Witness ==
    /\ WaitReturned
    /\ wait_call[1].response = <<[is_successful |-> TRUE]>>
    /\ ~wait_call[1].has_failed
    /\ wait_result[1] = NoWait

(***************************************************************************)
(* Properties of the configuration (SpecConfig).                           *)
(***************************************************************************)
\* A fetch that followed a successful update of the same adapter.
FetchedAfterUpdate ==
    /\ last_update # <<>>
    /\ exported # <<>>
    /\ last_update[1].raised = "none"
    /\ exported[1].adapter = last_update[1].adapter

\* The JSON number jv and the Python number x are the same number.
IsGiven(x, jv) ==
    /\ jv.k \in {"int", "real"}
    /\ Twice(x) = 2 * jv.n + (IF jv.k = "real" THEN 1 ELSE 0)

\* C3 as stated: after a successful update the fetched value of each key is
\* the value the payload gives when the key is present in the payload, and
\* the value held before the update when the key is absent.
C3_ExportReturnsGivenValue ==
    FetchedAfterUpdate =>
        LET obj == last_update[1].config.obj
            old == FetchNetworkConfigOf(last_update[1].before)
            new == exported[1].dict
        IN  \A key \in Keys :
                IF key \in DOMAIN obj
                THEN IsGiven(new[key], obj[key])
                ELSE new[key] = old[key]

\* C3 as amended: after a successful update the fetched value of each key
\* is float(value) for timeout and maximumTimeout and int(value) for
\* numberOfRetries when the key is present with a value other than null,
\* and the value held before the update when the key is absent or null.
C3_ExportReflectsUpdate ==
    FetchedAfterUpdate =>
        LET obj == last_update[1].config.obj
            old == FetchNetworkConfigOf(last_update[1].before)
            new == exported[1].dict
        IN  \A key \in Keys :
                IF key \in DOMAIN obj /\ obj[key].k # "null"
                THEN new[key] = IF key = "numberOfRetries"
                                THEN int(obj[key]).val
                                ELSE float(obj[key]).val
                ELSE new[key] = old[key]

\* A second update gave timeout and left maximumTimeout out, after an
\* earlier update had changed maximumTimeout.
C3_Witness ==
    /\ FetchedAfterUpdate
    /\ DOMAIN last_update[1].config.obj = {"timeout", "numberOfRetries"}
    /\ last_update[1].config.obj["timeout"] = JInt(3)
    /\ last_update[1].config.obj["numberOfRetries"] = JReal(2)
    /\ last_update[1].before.maximum_timeout = PyFloat(1, FALSE)
    /\ last_update[1].before.timeout = PyFloat(2, TRUE)
    /\ exported[1].dict.timeout = PyFloat(3, FALSE)
    /\ exported[1].dict.maximumTimeout = PyFloat(1, FALSE)

(***************************************************************************)
(* Properties of the built requests (Spec).                                *)
(***************************************************************************)
\* C4: every built request holds the timeout, maximum_timeout and
\* number_of_retries the adapter held at the moment of its build call,
\* whatever updates came later.
C4_RequestKeepsBuildTimeConfig ==
    /\ Len(built_from) = Len(requests)
    /\ \A i \in 1 .. Len(requests) :
           /\ requests[i].adapter = built_from[i].adapter
           /\ requests[i].timeout = built_from[i].timeout
           /\ requests[i].maximum_timeout = built_from[i].maximum_timeout
           /\ requests[i].number_of_retries = built_from[i].number_of_retries

\* A request built before an update and one built after it, and a further
\* update since: the first holds the defaults, the second the new values.
C4_Witness ==
    /\ Len(requests) = 2
    /\ requests[1].timeout = PyInt(DEFAULT_TIMEOUT)
    /\ requests[1].number_of_retries = PyInt(DEFAULT_NUMBER_OF_RETRIES)
    /\ requests[2].timeout = PyFloat(3, FALSE)
    /\ requests[2].number_of_retries = PyInt(0)
    /\ requests[2].maximum_timeout = PyInt(DEFAULT_MAXIMUM_TIMEOUT)
    /\ maximum_timeout["a1"] = PyFloat(5, FALSE)

\* C5: every built request has timeout <= maximum_timeout.
C5_TimeoutWithinMaximum ==
    \A i \in 1 .. Len(requests) :
        PyLe(requests[i].timeout, requests[i].maximum_timeout)

(***************************************************************************)
(* Properties of _read (SpecRead).                                         *)
(***************************************************************************)
Started(c) == calls[c].pc # "idle"
Done(c) == calls[c].pc = "done"

\* The retry budget of the request call c reads.
Budget(c) == requests[calls[c].request].number_of_retries.n

\* The outcome of attempt j of call c is a response.
Answered(c, j) == calls[c].outcomes[j] # <<>>
Succeeded(c, j) == Answered(c, j) /\ calls[c].outcomes[j][1].is_successful

\* Every attempt of call c so far got a response with is_successful false.
AllUnsuccessful(c) ==
    \A j \in 1 .. Len(calls[c].outcomes) : Answered(c, j) /\ ~Succeeded(c, j)

\* Attempt m of call c is its first successful one.
FirstSuccessAt(c, m) ==
    /\ m \in 1 .. Len(calls[c].outcomes)
    /\ Succeeded(c, m)
    /\ \A j \in 1 .. (m - 1) : ~Succeeded(c, j)

LastOutcome(c) == calls[c].outcomes[Len(calls[c].outcomes)]

\* C6: with a transport whose every attempt reports an unsuccessful response
\* and a request of retry budget k >= 1, _read makes exactly k attempts and
\* then raises HTTPError with the status code and headers of the last
\* response, never the undefined-result error.
C6_AllFailExhaustsBudget ==
    \A c \in Calls :
        (Started(c) /\ Budget(c) >= 1 /\ AllUnsuccessful(c)) =>
            /\ Len(calls[c].outcomes) <= Budget(c)
            /\ ~Done(c) => calls[c].returned = <<>>
            /\ Done(c) =>
                   /\ Len(calls[c].outcomes) = Budget(c)
                   /\ calls[c].returned =
                          <<Raises("HTTPError",
                                   requests[calls[c].request].requested_url,
                                   LastOutcome(c)[1].status_code,
                                   LastOutcome(c)[1].response_headers)>>

\* The default budget of 2: a 404 then a 500, and HTTPError 500 raised.
C6_Witness ==
    /\ Done("c1")
    /\ Budget("c1") = 2
    /\ calls["c1"].outcomes = <<<<Response(FALSE, 404, "h404", "err404")>>,
                                <<Response(FALSE, 500, "h500", "err500")>>>>
    /\ calls["c1"].returned = <<Raises("HTTPError", "/doc.json", 500, "h500")>>

\* C7: if the first successful response comes on attempt m <= retry budget,
\* _read makes exactly m attempts, returns the content of that response and
\* makes no further attempt.
C7_FirstSuccessReturnsBody ==
    \A c \in Calls : \A m \in 1 .. Len(calls[c].outcomes) :
        (FirstSuccessAt(c, m) /\ m <= Budget(c)) =>
            /\ Done(c)
            /\ Len(calls[c].outcomes) = m
            /\ calls[c].returned = <<Returns(calls[c].outcomes[m][1].content)>>

\* Budget 2, the transport raises once and then succeeds.
C7_Witness ==
    /\ Done("c1")
    /\ Budget("c1") = 2
    /\ calls["c1"].outcomes = <<<<>>, <<Response(TRUE, 200, "h200", "body2")>>>>
    /\ Len(calls["c1"].slept) = 1
    /\ calls["c1"].returned = <<Returns("body2")>>

\* The one attempt and no wait of a call with retry budget 0.
OneAttemptNoWait(c) ==
    /\ Len(calls[c].outcomes) <= 1
    /\ calls[c].pc # "sleep"
    /\ calls[c].wait = <<>>
    /\ calls[c].slept = <<>>
    /\ Done(c) <=> Len(calls[c].outcomes) = 1

\* C8 as stated: with retry budget 0, _read makes exactly one attempt, waits
\* for nothing, and returns the content if the attempt succeeded and raises
\* HTTPError otherwise.
C8_ZeroBudgetBodyOrHTTPError ==
    \A c \in Calls :
        (Started(c) /\ Budget(c) = 0) =>
            /\ OneAttemptNoWait(c)
            /\ Done(c) =>
                   /\ Len(calls[c].returned) = 1
                   /\ IF Succeeded(c, 1)
                      THEN calls[c].returned[1] =
                               Returns(calls[c].outcomes[1][1].content)
                      ELSE calls[c].returned[1].kind = "HTTPError"

\* C8 as amended: with retry budget 0, _read makes exactly one attempt, waits
\* for nothing, and returns the content if the attempt succeeded, raises
\* HTTPError with the response's code and headers if the attempt produced an
\* unsuccessful response, and raises the undefined-result error if the
\* attempt produced no response.
C8_ZeroBudgetSurfacesAttempt ==
    \A c \in Calls :
        (Started(c) /\ Budget(c) = 0) =>
            /\ OneAttemptNoWait(c)
            /\ Done(c) =>
                   calls[c].returned =
                       IF Succeeded(c, 1)
                       THEN <<Returns(calls[c].outcomes[1][1].content)>>
                       ELSE IF Answered(c, 1)
                       THEN <<Raises("HTTPError",
                                     requests[calls[c].request].requested_url,
                                     calls[c].outcomes[1][1].status_code,
                                     calls[c].outcomes[1][1].response_headers)>>
                       ELSE <<Raises("Exception", "", 0, "")>>

C8_Witness ==
    /\ Done("c1")
    /\ Budget("c1") = 0
    /\ calls["c1"].outcomes = <<<<Response(FALSE, 500, "h500", "err500")>>>>
    /\ calls["c1"].slept = <<>>
    /\ calls["c1"].returned = <<Raises("HTTPError", "/doc.json", 500, "h500")>>

\* C10: every call of _read ends in exactly one result: it returns the
\* content if and only if the final outcome is a response with is_successful
\* true; otherwise it raises one error and returns no content.
C10_OneTerminalResult ==
    \A c \in Calls :
        /\ Len(calls[c].returned) = (IF Done(c) THEN 1 ELSE 0)
        /\ Done(c) =>
               LET r == calls[c].returned[1]
                   n == Len(calls[c].outcomes)
               IN  /\ n >= 1
                   /\ r.kind \in {"return", "HTTPError", "Exception"}
                   /\ r.kind = "return" <=> Succeeded(c, n)
                   /\ r.kind = "return" =>
                          r.content = calls[c].outcomes[n][1].content
                   /\ r.kind # "return" => r.content = ""

\* A call that ended on an attempt with no response, after a failed one.
C10_Witness ==
    /\ Done("c1")
    /\ Len(calls["c1"].outcomes) = 3
    /\ Answered("c1", 1)
    /\ ~Answered("c1", 3)
    /\ calls["c1"].returned = <<Raises("Exception", "", 0, "")>>

(***************************************************************************)
(* Properties of the event loop (SpecLoop).                                *)
(***************************************************************************)
TripleOf(r) ==
    [timeout |-> r.timeout, maximum_timeout |-> r.maximum_timeout,
     number_of_retries |-> r.number_of_retries]

C11_CancelledInWait ==
    \A c \in Calls :
        (calls[c].cancelled # <<>> /\ calls[c].cancelled[1].pc = "sleep") =>
            /\ Done(c)
            /\ calls[c].returned = <<Raises("CancelledError", "", 0, "")>>
            /\ Len(calls[c].outcomes) = calls[c].cancelled[1].attempts
            /\ Len(calls[c].slept) = calls[c].cancelled[1].attempts - 1

\* Cancelled in the wait after the first of two permitted attempts failed.
C11_Witness ==
    /\ calls["c1"].cancelled = <<[pc |-> "sleep", attempts |-> 1]>>
    /\ Budget("c1") = 2
    /\ calls["c1"].outcomes = <<<<Response(FALSE, 500, "h500", "err500")>>>>
    /\ calls["c1"].returned = <<Raises("CancelledError", "", 0, "")>>

(***************************************************************************)
(* Properties of the arguments of a build (SpecArgs).                      *)
(***************************************************************************)
SupportedMethods == {"GET", "POST", "PUT", "DELETE"}

\* C12: _set_up_cdm_request returns no request when the path is empty or the
\* method is not a supported verb: no built request has an empty path or an
\* unsupported method.
C12_NoRequestForInvalidArguments ==
    \A i \in 1 .. Len(requests) :
        /\ requests[i].requested_url # ""
        /\ requests[i].method \in SupportedMethods

(***************************************************************************)
(* Properties of two calls at once (SpecCalls).                            *)
(***************************************************************************)
\* One call alone on request, the transport answering its attempts with
\* responses in order, from attempt n on: the attempts made and the result.
RECURSIVE RunAlone(_, _, _)
RunAlone(request, responses, n) ==
    IF n > Len(responses)
    THEN [attempts |-> n - 1, returned |-> <<>>]
    ELSE IF (responses[n] # <<>> /\ responses[n][1].is_successful)
            \/ n >= request.number_of_retries.n
    THEN [attempts |-> n,
          returned |-> <<IF responses[n] = <<>>
                         THEN Raises("Exception", "", 0, "")
                         ELSE IF responses[n][1].is_successful
                         THEN Returns(responses[n][1].content)
                         ELSE Raises("HTTPError", request.requested_url,
                                     responses[n][1].status_code,
                                     responses[n][1].response_headers)>>]
    ELSE RunAlone(request, responses, n + 1)

\* Call c can take its next step.
CanStep(c) ==
    /\ calls[c].pc = "idle" =>
           \A i \in 1 .. Len(requests) : ENABLED Read(c, i)
    /\ calls[c].pc = "send" =>
           \A outcome \in CallsOutcomes : ENABLED Attempt(c, outcome)
    /\ calls[c].pc = "sleep" => ENABLED Wake(c)

\* C13: of two calls of _read on one adapter, each makes the attempts and
\* ends with the result it would alone against the same responses, and a
\* call suspended in its wait never keeps the other from its next step.
C13_CallsDoNotInterfere ==
    \A c \in Calls :
        /\ Started(c) =>
               RunAlone(requests[calls[c].request], calls[c].outcomes, 1) =
                   [attempts |-> Len(calls[c].outcomes),
                    returned |-> calls[c].returned]
        /\ \A d \in Calls \ {c} : calls[d].pc = "sleep" => CanStep(c)

\* Both calls suspended in their waits at once, on different requests.
C13_Witness ==
    /\ calls["c1"].pc = "sleep"
    /\ calls["c2"].pc = "sleep"
    /\ calls["c1"].request # calls["c2"].request
    /\ calls["c1"].outcomes = <<<<>>>>
    /\ calls["c2"].outcomes = <<<<Response(FALSE, 500, "h500", "err500")>>>>

(***************************************************************************)
(* Properties of two adapters (SpecAdapters).                              *)
(***************************************************************************)
\* C14: update_network_config on one adapter changes neither what any other
\* adapter holds and fetches nor any request built so far.
C14_UpdateStaysInAdapter ==
    [][\A a \in Adapters :
          (/\ last_update' # <<>>
           /\ last_update' # last_update
           /\ last_update'[1].adapter # a) =>
              /\ Fields(a)' = Fields(a)
              /\ FetchNetworkConfigOf(Fields(a))' = FetchNetworkConfigOf(Fields(a))
              /\ requests' = requests]_vars

\* a1 was updated, then a2 fetched from and built on: both give a2's own
\* values.
C14_Witness ==
    /\ last_update # <<>>
    /\ last_update[1].adapter = "a1"
    /\ updated = {"a1"}
    /\ timeout["a1"] = PyFloat(3, FALSE)
    /\ number_of_retries["a1"] = PyInt(0)
    /\ exported = <<[adapter |-> "a2",
                     dict |-> [timeout |-> PyInt(DEFAULT_TIMEOUT),
                               maximumTimeout |-> PyInt(DEFAULT_MAXIMUM_TIMEOUT),
                               numberOfRetries |->
                                   PyInt(DEFAULT_NUMBER_OF_RETRIES)]]>>
    /\ Len(requests) = 2
    /\ requests[1].adapter = "a1"
    /\ requests[1].timeout = PyFloat(3, FALSE)
    /\ requests[2].adapter = "a2"
    /\ requests[2].timeout = PyInt(DEFAULT_TIMEOUT)

\* The values of the claim, as Python ints.
ClaimedDefaults ==
    [timeout |-> PyInt(2000), maximumTimeout |-> PyInt(10000),
     numberOfRetries |-> PyInt(2)]

\* C15: an adapter update_network_config was never called on fetches
\* timeout 2000, maximumTimeout 10000 and numberOfRetries 2, builds requests
\* holding these three values, and its default wait callback returns a
\* multiple of 500 ms, from 0 to 2^n times.
C15_DefaultsOfFreshAdapter ==
    \A a \in Adapters \ updated :
        /\ FetchNetworkConfigOf(Fields(a)) = ClaimedDefaults
        /\ (exported # <<>> /\ exported[1].adapter = a) =>
               exported[1].dict = ClaimedDefaults
        /\ \A i \in 1 .. Len(requests) :
               requests[i].adapter = a =>
                   /\ requests[i].timeout = ClaimedDefaults.timeout
                   /\ requests[i].maximum_timeout =
                          ClaimedDefaults.maximumTimeout
                   /\ requests[i].number_of_retries =
                          ClaimedDefaults.numberOfRetries
        /\ wait_time_callback[a] = "_default_get_wait_time"
        /\ wait_result # <<>> =>
               \E r \in 0 .. Pow2(wait_call[1].retry_number) :
                   wait_result[1] = WaitMs(r * 500)

\* a2 never updated while a1 was: a2 fetched from, a request built on it, and
\* a wait of one unit returned.
C15_Witness ==
    /\ updated = {"a1"}
    /\ timeout["a1"] = PyFloat(3, FALSE)
    /\ exported = <<[adapter |-> "a2", dict |-> ClaimedDefaults]>>
    /\ Len(requests) = 1
    /\ requests[1].adapter = "a2"
    /\ requests[1].timeout = PyInt(2000)
    /\ wait_result = <<WaitMs(500)>>

(***************************************************************************)
(* Properties of the retry budget (SpecBudget) and of a failing update     *)
(* (SpecConfig).                                                           *)
(***************************************************************************)
NonNegativeInt(x) == x.t = "int" /\ x.n >= 0

\* C16: number_of_retries is an int >= 0 in every state: on the adapter, in
\* the dict fetch_network_config returns and in every request built.
C16_RetryBudgetNonNegative ==
    /\ \A a \in Adapters : NonNegativeInt(number_of_retries[a])
    /\ exported # <<>> => NonNegativeInt(exported[1].dict.numberOfRetries)
    /\ \A i \in 1 .. Len(requests) :
           NonNegativeInt(requests[i].number_of_retries)

\* C17: an update_network_config call that raised left timeout,
\* maximum_timeout and number_of_retries as they were before the call.
C17_FailingUpdateChangesNothing ==
    (last_update # <<>> /\ last_update[1].raised # "none") =>
        Fields(last_update[1].adapter) = last_update[1].before

(***************************************************************************)
(* Properties of fetching and updating in turn (SpecRoundTrip).            *)
(***************************************************************************)
\* The two triples hold the same numbers (Python's ==).
SameValues(x, y) ==
    /\ PyEq(x.timeout, y.timeout)
    /\ PyEq(x.maximum_timeout, y.maximum_timeout)
    /\ PyEq(x.number_of_retries, y.number_of_retries)

\* The update that gave the state was of the fetched dict, serialized.
IsRoundTrip(u) == u.config = JsonDumps(FetchNetworkConfigOf(u.before))

\* C18: update_network_config on the serialized dict fetch_network_config
\* returned raises nothing and leaves the three values what they were; and
\* the payload of the last update applied again leaves the adapter as the
\* first application left it.
C18_RoundTripAndIdempotence ==
    [][/\ \A a \in Adapters :
              (/\ last_update' # <<>>
               /\ last_update'[1].adapter = a
               /\ IsRoundTrip(last_update'[1])) =>
                  /\ last_update'[1].raised = "none"
                  /\ SameValues(Fields(a)', last_update'[1].before)
       /\ \A a \in Adapters :
              (/\ last_update # <<>>
               /\ last_update' # <<>>
               /\ last_update[1].adapter = a
               /\ last_update'[1].adapter = a
               /\ last_update'[1].config = last_update[1].config
               /\ last_update'[1].before = Fields(a)) =>
                  /\ Fields(a)' = Fields(a)
                  /\ last_update'[1].raised = last_update[1].raised]_vars

\* A round trip from timeout 2.5, maximum_timeout still the int 10000 and
\* number_of_retries -1: the values are the same, maximum_timeout now a float.
C18_Witness ==
    /\ last_update # <<>>
    /\ IsRoundTrip(last_update[1])
    /\ last_update[1].before =
           [timeout |-> PyFloat(2, TRUE),
            maximum_timeout |-> PyInt(DEFAULT_MAXIMUM_TIMEOUT),
            number_of_retries |-> PyInt(-1)]
    /\ Fields("a1") =
           [timeout |-> PyFloat(2, TRUE),
            maximum_timeout |-> PyFloat(DEFAULT_MAXIMUM_TIMEOUT, FALSE),
            number_of_retries |-> PyInt(-1)]

(***************************************************************************)
(* Properties of the wait callback handed to send_async (SpecCallback).    *)
(***************************************************************************)
\* Every wait of call c, slept or being slept, is one callback can return
\* for the attempt it followed.
WaitsAreOf(c, callback) ==
    \A n \in 1 .. Len(calls[c].slept) + Len(calls[c].wait) :
        LET w == IF n <= Len(calls[c].slept) THEN calls[c].slept[n]
                 ELSE calls[c].wait[1] IN
        w \in WaitTime(callback, calls[c].outcomes[n],
                       HasFailed(calls[c].outcomes[n]), n)

\* The values the default callback returns: multiples of 500 ms.
IsDefaultWait(w) == \E r \in 0 .. Pow2(MaxRetryNumber + 1) : w = WaitMs(r * 500)

\* C19: a new adapter holds its default callback; a call that starts is
\* handed the callback its adapter holds at that moment; and every wait of a
\* call is a value of the callback it was handed, so that a call handed the
\* caller's function never waits a value of the default.
C19_CallbackOfCallTime ==
    /\ \A a \in Adapters : wait_time_callback[a] = "_default_get_wait_time"
    /\ [][\A c \in Calls :
             /\ (calls[c].pc = "idle" /\ calls'[c].pc # "idle") =>
                    calls'[c].callback =
                        wait_time_callback[requests[calls'[c].request].adapter]
             /\ calls[c].pc # "idle" =>
                    calls'[c].callback = calls[c].callback]_vars
    /\ [](\A c \in Calls :
             calls[c].pc # "idle" =>
                 /\ WaitsAreOf(c, calls[c].callback)
                 /\ calls[c].callback = "alternate" =>
                        /\ \A n \in 1 .. Len(calls[c].slept) :
                               ~IsDefaultWait(calls[c].slept[n])
                        /\ calls[c].wait # <<>> =>
                               ~IsDefaultWait(calls[c].wait[1]))

\* c1 started while the adapter held its default and waits a value of it;
\* the caller's function was assigned since, and c2, started after, has
\* waited the caller's value and sent its second attempt.
C19_Witness ==
    /\ wait_time_callback["a1"] = "alternate"
    /\ calls["c1"].pc = "sleep"
    /\ calls["c1"].callback = "_default_get_wait_time"
    /\ calls["c1"].wait = <<WaitMs(2 * DEFAULT_SHORTEST_WAIT_TIME)>>
    /\ calls["c2"].pc = "send"
    /\ calls["c2"].callback = "alternate"
    /\ calls["c2"].slept = <<WaitMs(1)>>

====
